---------------------------- MODULE Spec2Model ----------------------------
(***************************************************************************)
(* do-ansible-inventory (src/main.go): one run of main(), the generic      *)
(* pagination loop paginateGodo, and the pure helpers removeIgnored and    *)
(* sanitizeAnsibleGroup.                                                   *)
(*                                                                         *)
(* Strings that the program inspects character by character (group names,  *)
(* the identifier part of a resource URN) are sequences of one-character   *)
(* strings.  Machine names and IP addresses are only compared and copied   *)
(* and are plain strings.  The rendered inventory (bytes.Buffer) is the    *)
(* sequence of its lines; it is kept after it has been written out.  Of    *)
(* the log only the entries of level warn, error and fatal are kept.  The  *)
(* godo client is the environment: every remote call either fails or       *)
(* returns a page of what the provider holds.                              *)
(***************************************************************************)
EXTENDS Integers, Sequences, FiniteSets, TLC

VARIABLES
    flags,              \* the parsed command line (main.go:34-44)
    pc,                 \* position of the run in main()
    pg,                 \* locals of the running paginateGodo call
    reqs,               \* opt.Page of every call made by the running paginateGodo
    resps,              \* the responses those calls returned
    lastCall,           \* outcome of the remote call made by the last step
    fetched,            \* value returned by listDroplets (main.go:74)
    droplets,           \* droplets after removeIgnored (main.go:80)
    dropletsByID,       \* main.go:97
    dropletsByRegion,   \* main.go:83
    dropletsByTag,      \* main.go:91
    inventory,          \* main.go:96
    logged,             \* log entries of level warn, error and fatal
    projects,           \* main.go:185
    projIdx,            \* index of the project whose resources are listed
    resources,          \* what listProjectResources returned, project by project
    dropletsByProject,  \* main.go:190
    stdout,             \* what was written to os.Stdout
    file                \* state of the --out file

vars == <<flags, pc, pg, reqs, resps, lastCall, fetched, droplets, dropletsByID,
          dropletsByRegion, dropletsByTag, inventory, logged, projects, projIdx,
          resources, dropletsByProject, stdout, file>>

-----------------------------------------------------------------------------
(* Bounds of the model *)

MaxDroplets == 2     \* machines in the account listing
MaxPageLen == 2      \* items in one page
MaxFetches == 2      \* pages the provider serves for one listing
MaxResources == 2    \* resource references of one project
MaxProjects == 2     \* projects of the account
MaxFilterLen == 3    \* length of the lists removeIgnored is applied to
MaxIgnore == 2       \* names given with --ignore

-----------------------------------------------------------------------------
(* Sequence helpers *)

Range(s) == {s[i] : i \in 1..Len(s)}

\* the sequences of distinct elements of S of length at most n
InjSeqs(S, n) ==
    UNION {{s \in [1..k -> S] : \A i, j \in 1..k : i # j => s[i] # s[j]} :
           k \in 0..n}

\* every order in which the keys of a Go map can be ranged over
KeyOrders(S) ==
    {s \in [1..Cardinality(S) -> S] : \A i, j \in 1..Cardinality(S) : i # j => s[i] # s[j]}

RECURSIVE Concat(_)
Concat(ss) == IF ss = <<>> THEN <<>> ELSE Head(ss) \o Concat(Tail(ss))

-----------------------------------------------------------------------------
(* The provider's data: what the remote API can answer with *)

nyc1 == <<"n","y","c","1">>
ams3 == <<"a","m","s","3">>
xyz9 == <<"x","y","z","9">>          \* a region slug that doRegions lacks

prod == <<"p","r","o","d">>
devTeamA == <<"d","-","t",":","a">>

\* godo.Droplet: Networks.nil is a droplet whose Networks pointer is nil;
\* pub and priv are the addresses of its public and private v4 network, ""
\* when it has none of that type
DropletPool ==
    { [ID |-> 1, Name |-> "web1", Region |-> nyc1, Tags |-> <<prod>>,
       Networks |-> [nil |-> FALSE, pub |-> "1.1.1.1", priv |-> "10.0.0.1"]],
      [ID |-> 12, Name |-> "web2", Region |-> nyc1, Tags |-> <<devTeamA, prod>>,
       Networks |-> [nil |-> FALSE, pub |-> "", priv |-> "10.0.0.2"]],
      [ID |-> 3, Name |-> "db1", Region |-> xyz9, Tags |-> <<>>,
       Networks |-> [nil |-> FALSE, pub |-> "3.3.3.3", priv |-> ""]],
      [ID |-> 4, Name |-> "Web1", Region |-> ams3, Tags |-> <<nyc1>>,
       Networks |-> [nil |-> TRUE, pub |-> "", priv |-> ""]] }

\* godo.ProjectResource.URN, split at the end of its resource-type prefix
DropletPrefix == <<"do", "droplet">>
VolumePrefix == <<"do", "volume">>
URN(prefix, id) == [prefix |-> prefix, id |-> id]

\* godo.Project, with the resources the provider holds for it
ProjectPool ==
    << [ID |-> "p1", Name |-> <<"2","0","-","I">>,
        Resources |-> {URN(DropletPrefix, <<"1">>), URN(DropletPrefix, <<"1","2">>),
                       URN(VolumePrefix, <<"1">>)}],
       [ID |-> "p2", Name |-> <<"w"," ","a">>,
        Resources |-> {URN(DropletPrefix, <<"x","1">>)}] >>

IgnorePool == { <<>>, <<"web1", "db1">> }

\* --access-token, --ssh-user, --ssh-port, --out, --tag
OtherFlagsPool ==
    { [doToken |-> "", sshUser |-> "", sshPort |-> 0, out |-> "", tag |-> ""],
      [doToken |-> "tok", sshUser |-> "root", sshPort |-> 22, out |-> "inv.ini",
       tag |-> "prod"] }

FlagsPool ==
    { [groupByRegion |-> gr, groupByTag |-> gt, groupByProject |-> gp,
       privateIPs |-> pi, ignore |-> ig, other |-> o] :
        gr \in BOOLEAN, gt \in BOOLEAN, gp \in BOOLEAN, pi \in BOOLEAN,
        ig \in IgnorePool, o \in OtherFlagsPool }

-----------------------------------------------------------------------------
(* Program constants *)

doRegions ==
    << <<"a","m","s","1">>, <<"a","m","s","2">>, <<"a","m","s","3">>,
       <<"b","l","r","1">>, <<"f","r","a","1">>, <<"l","o","n","1">>,
       <<"n","y","c","1">>, <<"n","y","c","2">>, <<"n","y","c","3">>,
       <<"s","f","o","1">>, <<"s","f","o","2">>, <<"s","f","o","3">>,
       <<"s","g","p","1">>, <<"t","o","r","1">> >>

-----------------------------------------------------------------------------
(* Pure helpers *)

Digits == <<"0","1","2","3","4","5","6","7","8","9">>
IsDigit(c) == \E i \in 1..10 : Digits[i] = c
DigitVal(c) == (CHOOSE i \in 1..10 : Digits[i] = c) - 1

\* strconv.Atoi: an optional sign, then one or more decimal digits
RECURSIVE DecimalVal(_)
DecimalVal(cs) ==
    IF cs = <<>> THEN 0
    ELSE 10 * DecimalVal(SubSeq(cs, 1, Len(cs) - 1)) + DigitVal(cs[Len(cs)])

Atoi(cs) ==
    LET signed == cs # <<>> /\ cs[1] \in {"+", "-"}
        body == IF signed THEN Tail(cs) ELSE cs
    IN  IF body = <<>> \/ \E i \in 1..Len(body) : ~IsDigit(body[i])
        THEN [n |-> 0, err |-> TRUE]
        ELSE [n |-> IF signed /\ cs[1] = "-" THEN 0 - DecimalVal(body) ELSE DecimalVal(body),
              err |-> FALSE]

sanitizeAnsibleGroup(s) ==
    LET r == [i \in 1..Len(s) |-> IF s[i] \in {" ", "-", ":"} THEN "_" ELSE s[i]]
    IN  IF IsDigit(r[1]) THEN <<"_">> \o r ELSE r

\* the loop of removeIgnored: newDroplets shares the array of droplets, so
\* appending to it overwrites arr[w+1] while arr[i] is still to be read
RECURSIVE removeLoop(_, _, _, _)
removeLoop(arr, i, w, ignoreList) ==
    IF i > Len(arr) THEN SubSeq(arr, 1, w)
    ELSE IF arr[i].Name \in ignoreList
         THEN removeLoop(arr, i + 1, w, ignoreList)
         ELSE removeLoop([arr EXCEPT ![w + 1] = arr[i]], i + 1, w + 1, ignoreList)

\* faulty variant of removeIgnored: only the first ignored name is looked at
removeIgnoredFirstOnly(ds, ignored) ==
    IF Len(ignored) = 0 THEN ds
    ELSE removeLoop(ds, 1, 0, {ignored[1]})

\* faulty variant of removeIgnored: nothing is removed
removeIgnoredKeepAll(ds, ignored) == ds

removeIgnored(ds, ignored) ==
    IF Len(ignored) = 0 THEN ds
    ELSE removeLoop(ds, 1, 0, Range(ignored))

\* (*godo.Droplet).PublicIPv4 and PrivateIPv4: an error when the droplet has
\* no Networks, "" when it has no network of that type
PublicIPv4(d) ==
    IF d.Networks.nil THEN [ip |-> "", err |-> TRUE]
    ELSE [ip |-> d.Networks.pub, err |-> FALSE]

PrivateIPv4(d) ==
    IF d.Networks.nil THEN [ip |-> "", err |-> TRUE]
    ELSE [ip |-> d.Networks.priv, err |-> FALSE]

\* faulty variant of MapAppend: the value is put in front
MapPrepend(m, k, v) ==
    [x \in DOMAIN m \cup {k} |->
        IF x = k THEN (IF k \in DOMAIN m THEN <<v>> \o m[k] ELSE <<v>>) ELSE m[x]]

\* m[k] = append(m[k], v) on a Go map
MapAppend(m, k, v) ==
    [x \in DOMAIN m \cup {k} |->
        IF x = k THEN (IF k \in DOMAIN m THEN Append(m[k], v) ELSE <<v>>) ELSE m[x]]

EmptyMap == [x \in {} |-> <<>>]

-----------------------------------------------------------------------------
(* paginateGodo *)

\* resp.Links as paginateGodo reads it: present is Links # nil, last is
\* IsLastPage(), and CurrentPage() returns cur, or an error when ~curOK
Links(present, last, curOK, cur) ==
    [present |-> present, last |-> last, curOK |-> curOK, cur |-> cur]

\* the page the provider serves for opt.Page: a blank page is the first
ServedPage(page) == IF page = 0 THEN 1 ELSE page

NoLinks(page) == Links(FALSE, TRUE, TRUE, ServedPage(page))
LastPageLinks(page) == Links(TRUE, TRUE, TRUE, ServedPage(page))
MoreLinks(page) == Links(TRUE, FALSE, TRUE, ServedPage(page))
BadLinks == Links(TRUE, FALSE, FALSE, 0)

\* what call(opt) returns: err is a non-nil error; typeOK says whether results
\* has the dynamic type the handler asserts
Response(err, typeOK, items, links) ==
    [err |-> err, typeOK |-> typeOK, items |-> items, links |-> links]

ErrResponse == Response(TRUE, TRUE, <<>>, Links(FALSE, TRUE, TRUE, 0))

\* the responses a provider holding the items of pool can give to the n-th call
\* of a listing, made for page, that has received acc so far: no item twice,
\* at most maxTotal items in all, and no further page after the MaxFetches-th
Responses(pool, acc, page, n, maxTotal, types) ==
    {ErrResponse} \cup
    { Response(FALSE, t, items, l) :
        t \in types,
        items \in InjSeqs(pool \ Range(acc),
                          IF maxTotal - Len(acc) < MaxPageLen
                          THEN maxTotal - Len(acc) ELSE MaxPageLen),
        l \in {NoLinks(page), LastPageLinks(page), BadLinks} \cup
              (IF n < MaxFetches THEN {MoreLinks(page)} ELSE {}) }

\* the locals of paginateGodo and of the closure it feeds: opt.Page, the slice
\* the handler appends to, whether and how the function has returned, and the
\* number of calls it has made
PgInit == [page |-> 0, acc |-> <<>>, ret |-> "running", calls |-> 0]

\* handler of listDroplets and of listProjectResources
handler(acc, r) ==
    IF ~r.typeOK THEN [acc |-> acc, err |-> TRUE]
    ELSE [acc |-> acc \o r.items, err |-> FALSE]

\* the return value of paginateGodo when the handler has failed
handlerErrorResult == "nil"

\* faulty variant of nextPage: the page is not advanced
nextPageSame(page) == page

\* opt.Page for the next request
nextPage(page) == page + 1

\* one iteration of the loop of paginateGodo, r being what call(opt) returned
paginateStep(p, r) ==
    LET q == [p EXCEPT !.calls = @ + 1] IN
    IF r.err THEN [q EXCEPT !.ret = "err"]
    ELSE LET h == handler(q.acc, r) IN
         IF h.err THEN [q EXCEPT !.ret = handlerErrorResult]
         ELSE IF ~r.links.present \/ r.links.last
              THEN [q EXCEPT !.acc = h.acc, !.ret = "nil"]
         ELSE IF ~r.links.curOK
              THEN [q EXCEPT !.acc = h.acc, !.ret = "err"]
         ELSE [q EXCEPT !.acc = h.acc, !.page = nextPage(r.links.cur)]

\* faulty variant of listReturn: the error of paginateGodo is dropped
listReturnSwallow(p) == [val |-> p.acc, err |-> FALSE]

\* what listDroplets and listProjectResources return once paginateGodo has
\* returned
listReturn(p) ==
    IF p.ret = "err" THEN [val |-> <<>>, err |-> TRUE]
    ELSE [val |-> p.acc, err |-> FALSE]

-----------------------------------------------------------------------------
(* The inventory text and the log *)

HostLine(name, user, port, host) ==
    [t |-> "host", name |-> name, user |-> user, port |-> port, host |-> host]
HeaderLine(group) == [t |-> "header", group |-> group]
MemberLine(name) == [t |-> "member", name |-> name]
BlankLine == [t |-> "blank"]

NoURN == URN(<<>>, <<>>)
LogEntry(level, msg, droplet, project, urn) ==
    [level |-> level, msg |-> msg, droplet |-> droplet, project |-> project, urn |-> urn]

\* "[group]", one line per member, a blank line (main.go:154-161, 171-178, 226-233)
GroupLines(group, members) ==
    <<HeaderLine(group)>> \o [i \in 1..Len(members) |-> MemberLine(members[i])]
        \o <<BlankLine>>

\* the groups of map m written in the order given by keys, each under the
\* name sanitizeAnsibleGroup gives it
RECURSIVE SanitizedGroups(_, _)
SanitizedGroups(m, keys) ==
    IF keys = <<>> THEN <<>>
    ELSE GroupLines(sanitizeAnsibleGroup(Head(keys)), m[Head(keys)])
            \o SanitizedGroups(m, Tail(keys))

\* faulty variant of RegionGroups: a region without machines gets no group
RECURSIVE RegionGroupsSkipEmpty(_, _)
RegionGroupsSkipEmpty(byRegion, regions) ==
    IF regions = <<>> THEN <<>>
    ELSE (IF Head(regions) \in DOMAIN byRegion /\ byRegion[Head(regions)] # <<>>
          THEN GroupLines(Head(regions), byRegion[Head(regions)]) ELSE <<>>)
            \o RegionGroupsSkipEmpty(byRegion, Tail(regions))

\* the region groups, written by ranging over doRegions (main.go:148-163);
\* byRegion[region] of a key the map lacks is the nil slice
RECURSIVE RegionGroups(_, _)
RegionGroups(byRegion, regions) ==
    IF regions = <<>> THEN <<>>
    ELSE GroupLines(Head(regions),
                    IF Head(regions) \in DOMAIN byRegion
                    THEN byRegion[Head(regions)] ELSE <<>>)
            \o RegionGroups(byRegion, Tail(regions))

\* main.go:85-88
InitRegionMap == [r \in Range(doRegions) |-> <<>>]

\* main.go:110-114
RECURSIVE AddTags(_, _, _)
AddTags(byTag, tags, name) ==
    IF tags = <<>> THEN byTag
    ELSE AddTags(MapAppend(byTag, Head(tags), name), Tail(tags), name)

\* faulty variant of lookupIP: the public address stands in for a missing
\* private one
lookupIPFallback(d, f) ==
    IF f.privateIPs /\ ~PrivateIPv4(d).err /\ PrivateIPv4(d).ip # ""
    THEN PrivateIPv4(d) ELSE PublicIPv4(d)

\* main.go:120-124
lookupIP(d, f) == IF f.privateIPs THEN PrivateIPv4(d) ELSE PublicIPv4(d)

\* main.go:125-143: what the droplet adds to the inventory
connectionLines(d, f, ip) ==
    IF ip.err THEN <<>>
    ELSE <<HostLine(d.Name, f.other.sshUser, f.other.sshPort, ip.ip)>>

\* main.go:126, 141: what the droplet adds to the log
connectionLog(d, ip) ==
    IF ip.err
    THEN <<LogEntry("error", "couldn't look up the Droplet's IP address, skipped",
                    d.Name, <<>>, NoURN)>>
    ELSE IF ip.ip = ""
    THEN <<LogEntry("warn", "could not get the Droplet's IP address, using hostname",
                    d.Name, <<>>, NoURN)>>
    ELSE <<>>

\* one iteration of the loop over the droplets (main.go:99-144)
processDroplet(st, d, f) ==
    LET ip == lookupIP(d, f) IN
    [byID |-> [x \in DOMAIN st.byID \cup {d.ID} |->
                  IF x = d.ID THEN d.Name ELSE st.byID[x]],
     byRegion |-> IF f.groupByRegion
                  THEN MapAppend(st.byRegion, d.Region, d.Name) ELSE st.byRegion,
     byTag |-> IF f.groupByTag THEN AddTags(st.byTag, d.Tags, d.Name) ELSE st.byTag,
     inv |-> st.inv \o connectionLines(d, f, ip),
     log |-> st.log \o connectionLog(d, ip)]

RECURSIVE processDroplets(_, _, _)
processDroplets(st, ds, f) ==
    IF ds = <<>> THEN st
    ELSE processDroplets(processDroplet(st, Head(ds), f), Tail(ds), f)

\* one iteration of the loop over a project's resources (main.go:200-219)
addResource(st, r, project, byID) ==
    IF r.prefix # DropletPrefix THEN st
    ELSE LET id == Atoi(r.id) IN
         IF id.err
         THEN [st EXCEPT !.log = Append(@, LogEntry("error", "parsing droplet ID, skipping",
                                                    "", project.Name, r))]
         ELSE IF id.n \notin DOMAIN byID THEN st
         ELSE [st EXCEPT !.byProject = MapAppend(@, project.Name, byID[id.n])]

RECURSIVE addResources(_, _, _, _)
addResources(st, rs, project, byID) ==
    IF rs = <<>> THEN st
    ELSE addResources(addResource(st, Head(rs), project, byID), Tail(rs), project, byID)

-----------------------------------------------------------------------------
(* One run of main() *)

Fatal(msg) == logged' = Append(logged, LogEntry("fatal", msg, "", <<>>, NoURN))

Init ==
    /\ flags \in FlagsPool
    /\ pc = "start"
    /\ pg = PgInit
    /\ reqs = <<>>
    /\ resps = <<>>
    /\ lastCall = "none"
    /\ fetched = <<>>
    /\ droplets = <<>>
    /\ dropletsByID = EmptyMap
    /\ dropletsByRegion = EmptyMap
    /\ dropletsByTag = EmptyMap
    /\ inventory = <<>>
    /\ logged = <<>>
    /\ projects = <<>>
    /\ projIdx = 0
    /\ resources = <<>>
    /\ dropletsByProject = EmptyMap
    /\ stdout = "none"
    /\ file = "none"

\* main.go:53-66: an empty --access-token is looked up with doctlToken(), which
\* can fail
ResolveToken ==
    /\ pc = "start"
    /\ \E ok \in (IF flags.other.doToken = "" THEN BOOLEAN ELSE {TRUE}) :
          IF ok
          THEN /\ pc' = "listDroplets"
               /\ UNCHANGED logged
          ELSE /\ pc' = "fatal"
               /\ Fatal("couldn't look up token")
    /\ lastCall' = "none"
    /\ UNCHANGED <<flags, pg, reqs, resps, fetched, droplets, dropletsByID,
                   dropletsByRegion, dropletsByTag, inventory, projects, projIdx,
                   resources, dropletsByProject, stdout, file>>

\* main.go:74-77 with listDroplets and paginateGodo: one call for a page of
\* droplets and everything up to the next remote call
FetchDropletPage ==
    /\ pc = "listDroplets"
    /\ \E r \in Responses(DropletPool, pg.acc, pg.page, pg.calls + 1, MaxDroplets, {TRUE}) :
          LET p == paginateStep(pg, r)
              res == listReturn(p)
          IN  /\ lastCall' = IF r.err THEN "err" ELSE "ok"
              /\ IF p.ret = "running"
                 THEN /\ pg' = p
                      /\ UNCHANGED <<pc, fetched, logged>>
                 ELSE /\ pg' = PgInit
                      /\ IF res.err
                         THEN /\ pc' = "fatal"
                              /\ Fatal("couldn't fetch Droplets")
                              /\ UNCHANGED fetched
                         ELSE /\ pc' = "build"
                              /\ fetched' = res.val
                              /\ UNCHANGED logged
    /\ UNCHANGED <<flags, reqs, resps, droplets, dropletsByID, dropletsByRegion,
                   dropletsByTag, inventory, projects, projIdx, resources,
                   dropletsByProject, stdout, file>>

\* main.go:79-180: the ignore filter, the maps, the connection lines, the
\* region groups and the tag groups; the tag map is ranged over in any order
BuildInventory ==
    /\ pc = "build"
    /\ LET ds == removeIgnored(fetched, flags.ignore)
           st == processDroplets(
                    [byID |-> EmptyMap,
                     byRegion |-> IF flags.groupByRegion THEN InitRegionMap ELSE EmptyMap,
                     byTag |-> EmptyMap, inv |-> <<>>, log |-> <<>>],
                    ds, flags)
       IN  /\ droplets' = ds
           /\ dropletsByID' = st.byID
           /\ dropletsByRegion' = st.byRegion
           /\ dropletsByTag' = st.byTag
           /\ logged' = logged \o st.log
           /\ \E order \in KeyOrders(DOMAIN st.byTag) :
                 inventory' = st.inv \o <<BlankLine>>
                     \o (IF flags.groupByRegion
                         THEN RegionGroups(st.byRegion, doRegions) ELSE <<>>)
                     \o (IF flags.groupByTag
                         THEN SanitizedGroups(st.byTag, order) ELSE <<>>)
    /\ pc' = IF flags.groupByProject THEN "listProjects" ELSE "write"
    /\ lastCall' = "none"
    /\ UNCHANGED <<flags, pg, reqs, resps, fetched, projects, projIdx, resources,
                   dropletsByProject, stdout, file>>

\* main.go:185-190: client.Projects.List, a single call
ListProjects ==
    /\ pc = "listProjects"
    /\ \/ /\ lastCall' = "err"
          /\ pc' = "fatal"
          /\ Fatal("couldn't list projects")
          /\ UNCHANGED <<projects, projIdx>>
       \/ /\ lastCall' = "ok"
          /\ \E n \in 0..Len(ProjectPool) :
                LET ps == SubSeq(ProjectPool, 1, n) IN
                /\ n <= MaxProjects
                /\ projects' = ps
                /\ projIdx' = IF ps = <<>> THEN 0 ELSE 1
                /\ pc' = IF ps = <<>> THEN "renderProjects" ELSE "listResources"
          /\ UNCHANGED logged
    /\ UNCHANGED <<flags, pg, reqs, resps, fetched, droplets, dropletsByID,
                   dropletsByRegion, dropletsByTag, inventory, resources,
                   dropletsByProject, stdout, file>>

\* main.go:191-220 with listProjectResources and paginateGodo: one call for a
\* page of the current project's resources and everything up to the next
\* remote call
FetchResourcePage ==
    /\ pc = "listResources"
    /\ \E r \in Responses(projects[projIdx].Resources, pg.acc, pg.page, pg.calls + 1,
                          MaxResources, {TRUE}) :
          LET p == paginateStep(pg, r)
              res == listReturn(p)
              st == addResources([byProject |-> dropletsByProject, log |-> logged],
                                 res.val, projects[projIdx], dropletsByID)
          IN  /\ lastCall' = IF r.err THEN "err" ELSE "ok"
              /\ IF p.ret = "running"
                 THEN /\ pg' = p
                      /\ UNCHANGED <<pc, projIdx, resources, dropletsByProject, logged>>
                 ELSE /\ pg' = PgInit
                      /\ IF res.err
                         THEN /\ pc' = "fatal"
                              /\ Fatal("")
                              /\ UNCHANGED <<projIdx, resources, dropletsByProject>>
                         ELSE /\ resources' = Append(resources, res.val)
                              /\ dropletsByProject' = st.byProject
                              /\ logged' = st.log
                              /\ IF projIdx < Len(projects)
                                 THEN /\ projIdx' = projIdx + 1
                                      /\ UNCHANGED pc
                                 ELSE /\ pc' = "renderProjects"
                                      /\ UNCHANGED projIdx
    /\ UNCHANGED <<flags, reqs, resps, fetched, droplets, dropletsByID,
                   dropletsByRegion, dropletsByTag, inventory, projects, stdout, file>>

\* main.go:222-234: the project map is ranged over in any order
RenderProjects ==
    /\ pc = "renderProjects"
    /\ \E order \in KeyOrders(DOMAIN dropletsByProject) :
          inventory' = inventory \o SanitizedGroups(dropletsByProject, order)
    /\ pc' = "write"
    /\ lastCall' = "none"
    /\ UNCHANGED <<flags, pg, reqs, resps, fetched, droplets, dropletsByID,
                   dropletsByRegion, dropletsByTag, logged, projects, projIdx,
                   resources, dropletsByProject, stdout, file>>

\* main.go:237-254: os.Create or the write to the file can fail and are then
\* fatal; the error of the write to os.Stdout is dropped
WriteInventory ==
    /\ pc = "write"
    /\ IF flags.other.out # ""
       THEN \/ /\ pc' = "fatal"
               /\ Fatal("couldn't open file for writing")
               /\ UNCHANGED <<file, stdout>>
            \/ /\ pc' = "fatal"
               /\ Fatal("couldn't write inventory to file")
               /\ file' = "partial"
               /\ UNCHANGED stdout
            \/ /\ pc' = "done"
               /\ file' = "complete"
               /\ UNCHANGED <<stdout, logged>>
       ELSE /\ pc' = "done"
            /\ stdout' \in {"partial", "complete"}
            /\ UNCHANGED <<file, logged>>
    /\ lastCall' = "none"
    /\ UNCHANGED <<flags, pg, reqs, resps, fetched, droplets, dropletsByID,
                   dropletsByRegion, dropletsByTag, inventory, projects, projIdx,
                   resources, dropletsByProject>>

Next ==
    \/ ResolveToken
    \/ FetchDropletPage
    \/ BuildInventory
    \/ ListProjects
    \/ FetchResourcePage
    \/ RenderProjects
    \/ WriteInventory

Spec == Init /\ [][Next]_vars

-----------------------------------------------------------------------------
(* paginateGodo on its own, under listDroplets or listProjectResources, with   *)
(* a call that may also return results of a type the handler does not accept   *)

DefaultFlags ==
    [groupByRegion |-> TRUE, groupByTag |-> TRUE, groupByProject |-> TRUE,
     privateIPs |-> FALSE, ignore |-> <<>>,
     other |-> [doToken |-> "tok", sshUser |-> "", sshPort |-> 0, out |-> "", tag |-> ""]]

InitPaginate ==
    /\ flags = DefaultFlags
    /\ pc = "paginate"
    /\ pg = PgInit
    /\ reqs = <<>>
    /\ resps = <<>>
    /\ lastCall = "none"
    /\ fetched = <<>>
    /\ droplets = <<>>
    /\ dropletsByID = EmptyMap
    /\ dropletsByRegion = EmptyMap
    /\ dropletsByTag = EmptyMap
    /\ inventory = <<>>
    /\ logged = <<>>
    /\ \/ projects = <<>> /\ projIdx = 0                  \* listDroplets
       \/ projects = <<ProjectPool[1]>> /\ projIdx = 1    \* listProjectResources
    /\ resources = <<>>
    /\ dropletsByProject = EmptyMap
    /\ stdout = "none"
    /\ file = "none"

\* one iteration of the loop of paginateGodo (main.go:384-407)
PaginateCall ==
    /\ pc = "paginate"
    /\ pg.ret = "running"
    /\ \E r \in Responses(IF projIdx = 0 THEN DropletPool ELSE projects[projIdx].Resources,
                          pg.acc, pg.page, pg.calls + 1,
                          IF projIdx = 0 THEN MaxDroplets ELSE MaxResources, BOOLEAN) :
          /\ pg' = paginateStep(pg, r)
          /\ reqs' = Append(reqs, pg.page)
          /\ resps' = Append(resps, r)
          /\ lastCall' = IF r.err THEN "err" ELSE "ok"
    /\ UNCHANGED <<flags, pc, fetched, droplets, dropletsByID, dropletsByRegion,
                   dropletsByTag, inventory, logged, projects, projIdx, resources,
                   dropletsByProject, stdout, file>>

\* the return of listDroplets (main.go:349-354) or of listProjectResources
\* (main.go:373-378)
ListReturn ==
    /\ pc = "paginate"
    /\ pg.ret # "running"
    /\ LET res == listReturn(pg)
       IN  /\ fetched' = res.val
           /\ pc' = IF res.err THEN "returnedErr" ELSE "returnedNil"
    /\ UNCHANGED <<flags, pg, reqs, resps, lastCall, droplets, dropletsByID,
                   dropletsByRegion, dropletsByTag, inventory, logged, projects,
                   projIdx, resources, dropletsByProject, stdout, file>>

NextPaginate == PaginateCall \/ ListReturn

SpecPaginate == InitPaginate /\ [][NextPaginate]_vars

-----------------------------------------------------------------------------
(* removeIgnored on its own *)

IgnoreNames == {"web1", "web2", "db1", "Web1", "nope"}

InitFilter ==
    /\ \E ig \in InjSeqs(IgnoreNames, MaxIgnore) : flags = [DefaultFlags EXCEPT !.ignore = ig]
    /\ pc = "filter"
    /\ pg = PgInit
    /\ reqs = <<>>
    /\ resps = <<>>
    /\ lastCall = "none"
    /\ fetched \in UNION {[1..k -> DropletPool] : k \in 0..MaxFilterLen}
    /\ droplets = <<>>
    /\ dropletsByID = EmptyMap
    /\ dropletsByRegion = EmptyMap
    /\ dropletsByTag = EmptyMap
    /\ inventory = <<>>
    /\ logged = <<>>
    /\ projects = <<>>
    /\ projIdx = 0
    /\ resources = <<>>
    /\ dropletsByProject = EmptyMap
    /\ stdout = "none"
    /\ file = "none"

\* main.go:80
ApplyRemoveIgnored ==
    /\ pc = "filter"
    /\ droplets' = removeIgnored(fetched, flags.ignore)
    /\ pc' = "filtered"
    /\ UNCHANGED <<flags, pg, reqs, resps, lastCall, fetched, dropletsByID,
                   dropletsByRegion, dropletsByTag, inventory, logged, projects,
                   projIdx, resources, dropletsByProject, stdout, file>>

NextFilter == ApplyRemoveIgnored

SpecFilter == InitFilter /\ [][NextFilter]_vars

-----------------------------------------------------------------------------
(* Claims about paginateGodo (SpecPaginate) *)

Returned == pc \in {"returnedNil", "returnedErr"}

\* the response tells paginateGodo that it is the last page
SignalsLastPage(r) == ~r.links.present \/ r.links.last

\* the call succeeded and returned what the list function's call returns
GoodResponse(r) == ~r.err /\ r.typeOK

ItemsOf(rs) == Concat([i \in 1..Len(rs) |-> rs[i].items])

\* C1: when every fetch of listDroplets or listProjectResources succeeds and
\* the N-th response is the one that signals the last page, exactly N fetches
\* are made, the first with a blank page and each later one with the previous
\* response's current page plus one, no fetch follows the last-page signal, and
\* the list function returns the items of the N pages in page order with a nil
\* error.
C1_AllPagesFetchedInOrder ==
    /\ Len(reqs) = Len(resps)
    /\ \A i \in 1..(Len(resps) - 1) : GoodResponse(resps[i]) => ~SignalsLastPage(resps[i])
    /\ ( /\ resps # <<>>
         /\ \A i \in 1..Len(resps) : GoodResponse(resps[i])
         /\ SignalsLastPage(resps[Len(resps)]) )
       => /\ pg.ret = "nil"
          /\ reqs[1] = 0
          /\ \A i \in 1..(Len(reqs) - 1) : reqs[i + 1] = resps[i].links.cur + 1
          /\ pg.acc = ItemsOf(resps)
          /\ Returned => pc = "returnedNil" /\ fetched = ItemsOf(resps)

C1_Witness ==
    /\ pc = "returnedNil"
    /\ Len(resps) = 2
    /\ \A i \in 1..2 : GoodResponse(resps[i]) /\ resps[i].items # <<>>
    /\ SignalsLastPage(resps[2])
    /\ reqs = <<0, 2>>
    /\ Len(fetched) = 2

\* C10: once the page handler has returned an error, paginateGodo returns a
\* non-nil error, so a list function never returns a nil error with items
\* missing.
C10_HandlerErrorPropagates ==
    /\ (pg.ret # "running" /\ \E i \in 1..Len(resps) : ~resps[i].err /\ ~resps[i].typeOK)
          => pg.ret = "err"
    /\ pc = "returnedNil" => fetched = Concat([i \in 1..Len(resps) |->
                                                 IF resps[i].err THEN <<>> ELSE resps[i].items])

-----------------------------------------------------------------------------
(* Claims about removeIgnored (SpecFilter) *)

NotIgnored(d) == d.Name \notin Range(flags.ignore)

\* C3: removeIgnored(L, I) is exactly the machines of L whose name is not in I,
\* in their order in L, and removeIgnored(L, empty) is L.
C3_RemoveIgnoredExact ==
    pc = "filtered" =>
        /\ droplets = SelectSeq(fetched, NotIgnored)
        /\ flags.ignore = <<>> => droplets = fetched

C3_Witness ==
    /\ pc = "filtered"
    /\ Len(fetched) = 3
    /\ Len(flags.ignore) = 2
    /\ Len(droplets) = 2
    /\ ~NotIgnored(fetched[1])
    /\ fetched[2].Name = "Web1" /\ "web1" \in Range(flags.ignore)
    /\ droplets = <<fetched[2], fetched[3]>>

-----------------------------------------------------------------------------
(* Reading the rendered inventory and the inputs of a run (Spec) *)

Completed == pc = "done"

\* the non-ignored machines, in the order in which they were fetched
Kept == SelectSeq(fetched, NotIgnored)

IsHostLine(l) == l.t = "host"
HostLines == SelectSeq(inventory, IsHostLine)

\* the positions of the group headers, in order
IsHeaderAt(i) == inventory[i].t = "header"
HeaderIdx == SelectSeq([i \in 1..Len(inventory) |-> i], IsHeaderAt)
NumGroups == Len(HeaderIdx)

\* the k-th group of the inventory: the name in its header and the member
\* lines up to the next blank line
GroupName(k) == inventory[HeaderIdx[k]].group
GroupMembers(k) ==
    LET h == HeaderIdx[k]
        e == CHOOSE j \in (h + 1)..Len(inventory) :
                /\ inventory[j].t = "blank"
                /\ \A x \in (h + 1)..(j - 1) : inventory[x].t = "member"
    IN  [x \in 1..(e - h - 1) |-> inventory[h + x].name]

\* the region groups come first, then the tag groups, then the project groups
NumRegionGroups == IF flags.groupByRegion THEN Len(doRegions) ELSE 0
KeptTags == UNION {Range(Kept[i].Tags) : i \in 1..Len(Kept)}
NumTagGroups == IF flags.groupByTag THEN Cardinality(KeptTags) ELSE 0
RegionGroupIdx == 1..NumRegionGroups
TagGroupIdx == (NumRegionGroups + 1)..(NumRegionGroups + NumTagGroups)
ProjectGroupIdx == (NumRegionGroups + NumTagGroups + 1)..NumGroups

NamesOf(ds) == [i \in 1..Len(ds) |-> ds[i].Name]

\* position of the machine called name in the fetch order
FetchPos(name) == CHOOSE i \in 1..Len(fetched) : fetched[i].Name = name

InFetchOrder(ms) ==
    \A a, b \in 1..Len(ms) : a < b => FetchPos(ms[a]) < FetchPos(ms[b])

\* the reference names a fetched machine that is not ignored
RefersTo(r, d) ==
    r.prefix = DropletPrefix /\ Atoi(r.id) = [n |-> d.ID, err |-> FALSE]
KnownRef(r) == \E i \in 1..Len(Kept) : RefersTo(r, Kept[i])
RefName(r) == Kept[CHOOSE i \in 1..Len(Kept) : RefersTo(r, Kept[i])].Name

\* the machines that the references rs name, in the order of rs
ReferencedNames(rs) ==
    LET known == SelectSeq(rs, KnownRef)
    IN  [i \in 1..Len(known) |-> RefName(known[i])]

-----------------------------------------------------------------------------
(* Claims about a run of main() (Spec) *)

NothingWritten == stdout = "none" /\ file = "none"

\* C2: when a remote call fails (a page of the machine listing, the project
\* listing, a page of a project's resource listing), the run is in the fatal
\* state right after it with nothing written to the file or to standard
\* output, and no step follows the fatal state: no further call, no write.
C2_RemoteFailureIsFatal ==
    /\ [](lastCall = "err" => pc = "fatal" /\ NothingWritten)
    /\ [][pc # "fatal"]_vars

C2_Witness ==
    /\ lastCall = "err"
    /\ pc = "fatal"
    /\ Len(resources) = 1
    /\ Len(projects) = 2
    /\ inventory # <<>>
    /\ NothingWritten

\* C4: in a completed run no connection line and no member line of any group
\* carries an ignored name, and every project group holds exactly the
\* non-ignored fetched machines that the references returned for its project
\* name, so a reference to an ignored or unknown machine adds no member.
C4_IgnoredNowhere ==
    Completed =>
        /\ \A i \in 1..Len(inventory) :
              inventory[i].t \in {"host", "member"}
                 => inventory[i].name \notin Range(flags.ignore)
        /\ \A j \in 1..Len(projects) :
              IF ReferencedNames(resources[j]) = <<>>
              THEN \A k \in ProjectGroupIdx :
                      GroupName(k) # sanitizeAnsibleGroup(projects[j].Name)
              ELSE \E k \in ProjectGroupIdx :
                      /\ GroupName(k) = sanitizeAnsibleGroup(projects[j].Name)
                      /\ GroupMembers(k) = ReferencedNames(resources[j])
        /\ Cardinality(ProjectGroupIdx) <= Len(projects)

C4_Witness ==
    /\ Completed
    /\ \E i \in 1..Len(fetched), j \in 1..Len(projects) :
          /\ ~NotIgnored(fetched[i])
          /\ \E r \in Range(resources[j]) :
                r.prefix = DropletPrefix /\ Atoi(r.id) = [n |-> fetched[i].ID, err |-> FALSE]
          /\ Len(ReferencedNames(resources[j])) = 1
    /\ \E j \in 1..Len(projects) :
          \E r \in Range(resources[j]) : r.prefix = DropletPrefix /\ ~KnownRef(r)
    /\ Len(Kept) = 1
    /\ flags.groupByRegion /\ flags.groupByTag

\* the address the claim C9 expects on the connection line of d
HasPrivate(d) == ~d.Networks.nil /\ d.Networks.priv # ""
HasPublic(d) == ~d.Networks.nil /\ d.Networks.pub # ""
AddressWithFallback(d) ==
    IF flags.privateIPs /\ HasPrivate(d) THEN d.Networks.priv
    ELSE IF HasPublic(d) THEN d.Networks.pub
    ELSE ""

\* C5: a completed run's inventory starts with one connection line per
\* non-ignored machine, in fetch order, whatever the address lookup gave; a
\* machine without a usable address has a line without ansible_host= and is a
\* member of the groups of its tags.
C5_EveryMachineListed ==
    Completed =>
        /\ Len(inventory) > Len(Kept)
        /\ \A i \in 1..Len(Kept) :
              /\ inventory[i].t = "host"
              /\ inventory[i].name = Kept[i].Name
              /\ (Kept[i].Networks.nil => inventory[i].host = "")
              /\ flags.groupByTag =>
                    \A tag \in Range(Kept[i].Tags) :
                       \E k \in TagGroupIdx :
                          /\ GroupName(k) = sanitizeAnsibleGroup(tag)
                          /\ Kept[i].Name \in Range(GroupMembers(k))
        /\ inventory[Len(Kept) + 1].t = "blank"

AddressMessages ==
    {"couldn't look up the Droplet's IP address, skipped",
     "could not get the Droplet's IP address, using hostname"}

\* C7: with group-by-region, in a completed run every non-ignored machine whose
\* region slug is not in doRegions is a member of a region group of the
\* inventory, or a warning about its region has been logged.
C7_UnknownRegionKept ==
    (Completed /\ flags.groupByRegion) =>
        \A i \in 1..Len(Kept) :
           Kept[i].Region \notin Range(doRegions) =>
              \/ \E k \in RegionGroupIdx : Kept[i].Name \in Range(GroupMembers(k))
              \/ \E e \in Range(logged) :
                    /\ e.droplet = Kept[i].Name
                    /\ e.level = "warn"
                    /\ e.msg \notin AddressMessages

\* C8 as stated: in every group of the inventory, region, tag and project
\* alike, the members are in fetch order.
C8_AllGroupsInFetchOrder ==
    Completed => \A k \in 1..NumGroups : InFetchOrder(GroupMembers(k))

\* C8 as amended: the members of every region group and of every tag group are
\* in fetch order; the members of a project group are in the order in which the
\* project's resource references were returned.
C8_GroupOrder ==
    Completed =>
        /\ \A k \in RegionGroupIdx \cup TagGroupIdx : InFetchOrder(GroupMembers(k))
        /\ \A k \in ProjectGroupIdx :
              \E j \in 1..Len(projects) :
                 /\ GroupName(k) = sanitizeAnsibleGroup(projects[j].Name)
                 /\ GroupMembers(k) = ReferencedNames(resources[j])

C8_Witness ==
    /\ Completed
    /\ NamesOf(fetched) = <<"web1", "web2">>
    /\ \E k \in RegionGroupIdx : GroupMembers(k) = <<"web1", "web2">>
    /\ \E k \in TagGroupIdx : GroupMembers(k) = <<"web1", "web2">>
    /\ \E k \in ProjectGroupIdx : GroupMembers(k) = <<"web2", "web1">>

\* the machines that get a connection line: those whose address lookup
\* returns no error
Listed == SelectSeq(Kept, LAMBDA d : ~d.Networks.nil)

\* C9 as stated: the address on a machine's connection line is its private IP
\* when --private-ips is set and it has one, otherwise its public IP when it
\* has one, otherwise none.
C9_AddressWithFallback ==
    Completed =>
        \A i \in 1..Len(HostLines) :
           \E j \in 1..Len(Kept) :
              /\ Kept[j].Name = HostLines[i].name
              /\ HostLines[i].host = AddressWithFallback(Kept[j])

\* C9 as amended: the machines whose lookup returns no error have the
\* connection lines, in fetch order; the address on a line is the machine's
\* private IP when --private-ips is set and its public IP when it is not, and
\* none when the machine has no address of that one kind, which is not an
\* error: with --private-ips there is no fallback to the public IP.
C9_AddressOfRequestedKind ==
    Completed =>
        /\ Len(HostLines) = Len(Listed)
        /\ \A i \in 1..Len(Listed) :
              /\ HostLines[i].name = Listed[i].Name
              /\ HostLines[i].host =
                    IF flags.privateIPs THEN Listed[i].Networks.priv
                    ELSE Listed[i].Networks.pub

C9_Witness ==
    /\ Completed
    /\ flags.privateIPs
    /\ NamesOf(Kept) = <<"web1", "db1">>
    /\ Len(HostLines) = 2
    /\ HostLines[1].host = "10.0.0.1"
    /\ HostLines[2].host = ""

=============================================================================
